---------------------------- MODULE Spec2Model ----------------------------
(***************************************************************************)
(* A model of src/utils/pascal/pascal_utils.py: the PASCAL-VOC annotation  *)
(* flattener convert_annotations_to_df with its module-level LabelEncoder, *)
(* the pure helper clamp_bbox_coordinates, and PascalDataset (__init__,    *)
(* __len__, __getitem__).                                                  *)
(*                                                                         *)
(* Strings are tuples of code points, compared as Python compares str.     *)
(* Paths are records [abs, parts].  Floating-point coordinates are         *)
(* fixed-point integers counted in 1/Unit, so that 1.0 is Unit.            *)
(***************************************************************************)
EXTENDS Integers, Sequences, FiniteSets

VARIABLES
    encoder,      \* the module-level LabelEncoder: [fitted, classes_]
    call,         \* arguments of the last convert_annotations_to_df call
    outcome,      \* "none" | "returned" | "raised" : how that call ended
    xml_df,       \* the table that call returned (<<>> when it raised)
    trainPairs,   \* <<class, labels>> pairs of the table the last train call returned
    ds,           \* the PascalDataset instance: [df, image_ids]
    lenResult,    \* the last value __len__ returned (-1: not called yet)
    getCall,      \* last __getitem__: index, path read, arguments given to tfms
    sample,       \* what the last __getitem__ returned: [kind |-> "none"|"skip"|"sample", ...]
    bboxes,       \* clamp_bbox_coordinates: the argument
    clamped,      \* clamp_bbox_coordinates(bboxes)
    reclamped,    \* clamp_bbox_coordinates(clamped)
    pc            \* position of the clamp driver: "start" | "clamped" | "reclamped"

flattenVars == <<encoder, call, outcome, xml_df, trainPairs>>
datasetVars == <<ds, lenResult, getCall, sample>>
clampVars == <<bboxes, clamped, reclamped, pc>>
vars == <<encoder, call, outcome, xml_df, trainPairs, ds, lenResult, getCall,
          sample, bboxes, clamped, reclamped, pc>>

-----------------------------------------------------------------------------
(* Bounds of the model *)

\* objects per annotation document in the row-building specification
MaxObjects == 2
\* annotation documents per directory in the row-building specification
MaxDocs == 2
\* objects of the document in the encoder specification
MaxColumn == 2
\* rows of the table behind a PascalDataset
MaxRows == 3
\* boxes in an argument of clamp_bbox_coordinates
MaxBoxes == 2

-----------------------------------------------------------------------------
(* Sequences and strings *)

Range(s) == {s[i] : i \in 1..Len(s)}

SeqsUpTo(S, n) == UNION {[1..k -> S] : k \in 0..n}

RECURSIVE Concat(_)
Concat(ss) == IF ss = <<>> THEN <<>> ELSE Head(ss) \o Concat(Tail(ss))

\* Variant of Unique: the distinct values in order of last appearance
RECURSIVE UniqueKeepLast(_)
UniqueKeepLast(s) ==
    IF s = <<>> THEN <<>>
    ELSE LET rest == UniqueKeepLast(Tail(s))
         IN  IF Head(s) \in {rest[i] : i \in 1..Len(rest)} THEN rest ELSE <<Head(s)>> \o rest

\* Series.unique(): the distinct values in order of first appearance
RECURSIVE Unique(_)
Unique(s) ==
    IF s = <<>> THEN <<>>
    ELSE LET front == Unique(SubSeq(s, 1, Len(s) - 1))
             last == s[Len(s)]
         IN  IF last \in Range(front) THEN front ELSE Append(front, last)

\* Python's str < str: lexicographic on code points, a proper prefix is smaller
RECURSIVE StrLess(_, _)
StrLess(a, b) ==
    IF b = <<>> THEN FALSE
    ELSE IF a = <<>> THEN TRUE
    ELSE IF Head(a) # Head(b) THEN Head(a) < Head(b)
    ELSE StrLess(Tail(a), Tail(b))

car == <<99, 97, 114>>
cat == <<99, 97, 116>>
dog == <<100, 111, 103>>
ClassNames == {car, cat, dog}

\* os.path.join(image_dir, filename): an absolute second argument discards the first
PathJoin(a, b) ==
    IF b.abs THEN b ELSE [abs |-> a.abs, parts |-> a.parts \o b.parts]

-----------------------------------------------------------------------------
(* sklearn.preprocessing.LabelEncoder, as the module uses it *)

Unfit == [fitted |-> FALSE, classes_ |-> <<>>]

\* np.unique: the distinct values in ascending order
RECURSIVE SortedSeq(_)
SortedSeq(S) ==
    IF S = {} THEN <<>>
    ELSE LET m == CHOOSE x \in S : \A y \in S \ {x} : StrLess(x, y)
         IN  <<m>> \o SortedSeq(S \ {m})

IndexOf(x, s) == CHOOSE i \in 1..Len(s) : s[i] = x

\* the 0-based ordinal of every value of the column
Encode(column, classes) == [i \in 1..Len(column) |-> IndexOf(column[i], classes) - 1]

\* Variant of FitTransform: classes_ in order of first appearance, not sorted
FitTransformFirstSeen(enc, column) ==
    [enc |-> [fitted |-> TRUE, classes_ |-> Unique(column)],
     raised |-> FALSE,
     codes |-> Encode(column, Unique(column))]

\* encoder.fit_transform(y): [enc, raised, codes]
FitTransform(enc, column) ==
    LET classes == SortedSeq(Range(column))
    IN  [enc |-> [fitted |-> TRUE, classes_ |-> classes],
         raised |-> FALSE,
         codes |-> Encode(column, classes)]

\* Variant of Transform: ordinals taken from the column itself, as a refit would
TransformRefit(enc, column) ==
    IF ~enc.fitted \/ ~(Range(column) \subseteq Range(enc.classes_))
    THEN [enc |-> enc, raised |-> TRUE, codes |-> <<>>]
    ELSE [enc |-> enc, raised |-> FALSE,
          codes |-> Encode(column, SortedSeq(Range(column)))]

\* Variant of Transform: an unseen class is appended to classes_ instead of raising
TransformLenient(enc, column) ==
    LET classes == enc.classes_ \o SortedSeq(Range(column) \ Range(enc.classes_))
    IN  [enc |-> [fitted |-> TRUE, classes_ |-> classes],
         raised |-> FALSE,
         codes |-> Encode(column, classes)]

\* encoder.transform(y): NotFittedError before fit, empty for an empty column,
\* ValueError on a value that is not in classes_
Transform(enc, column) ==
    IF ~enc.fitted THEN [enc |-> enc, raised |-> TRUE, codes |-> <<>>]
    ELSE IF column = <<>> THEN [enc |-> enc, raised |-> FALSE, codes |-> <<>>]
    ELSE IF ~(Range(column) \subseteq Range(enc.classes_))
         THEN [enc |-> enc, raised |-> TRUE, codes |-> <<>>]
    ELSE [enc |-> enc, raised |-> FALSE, codes |-> Encode(column, enc.classes_)]

-----------------------------------------------------------------------------
(* convert_annotations_to_df *)

\* Variant of DocRows: a document without objects contributes an image-only row
DocRowsImageOnly(doc) ==
    IF doc.objects = <<>>
    THEN <<[filename |-> doc.filename, width |-> doc.size[1], height |-> doc.size[2],
            class |-> <<>>, xmin |-> 0, ymin |-> 0, xmax |-> 0, ymax |-> 0]>>
    ELSE [i \in 1..Len(doc.objects) |->
            [filename |-> doc.filename,
             width |-> doc.size[1],
             height |-> doc.size[2],
             class |-> doc.objects[i].name,
             xmin |-> doc.objects[i].bndbox.xmin,
             ymin |-> doc.objects[i].bndbox.ymin,
             xmax |-> doc.objects[i].bndbox.xmax,
             ymax |-> doc.objects[i].bndbox.ymax]]

\* the rows one document contributes: one per object, in object order
DocRows(doc) ==
    [i \in 1..Len(doc.objects) |->
        [filename |-> doc.filename,
         width |-> doc.size[1],
         height |-> doc.size[2],
         class |-> doc.objects[i].name,
         xmin |-> doc.objects[i].bndbox.xmin,
         ymin |-> doc.objects[i].bndbox.ymin,
         xmax |-> doc.objects[i].bndbox.xmax,
         ymax |-> doc.objects[i].bndbox.ymax]]

\* xml_list after the loop over glob.glob(annotation_dir + "/*.xml")
XmlList(docs) == Concat([d \in 1..Len(docs) |-> DocRows(docs[d])])

\* xml_df["filename"] = [os.path.join(image_dir, xml_df["filename"][i]) ...]
JoinFilenames(rows, image_dir) ==
    [i \in 1..Len(rows) |->
        [rows[i] EXCEPT !.filename = PathJoin(image_dir, rows[i].filename)]]

ClassColumn(rows) == [i \in 1..Len(rows) |-> rows[i].class]

\* xml_df["labels"] = codes + 1
WithLabels(rows, codes) ==
    [i \in 1..Len(rows) |->
        [filename |-> rows[i].filename, width |-> rows[i].width,
         height |-> rows[i].height, class |-> rows[i].class,
         xmin |-> rows[i].xmin, ymin |-> rows[i].ymin,
         xmax |-> rows[i].xmax, ymax |-> rows[i].ymax,
         labels |-> codes[i] + 1]]

\* Variant of EncodeSplit: val and test fit the encoder again
EncodeSplitRefit(enc, image_set, column) ==
    IF image_set \in {"train", "val", "test"} THEN FitTransform(enc, column)
    ELSE [enc |-> enc, raised |-> FALSE, codes |-> <<>>]

\* the encoder call the split selects; any other split calls nothing
EncodeSplit(enc, image_set, column) ==
    IF image_set = "train" THEN FitTransform(enc, column)
    ELSE IF image_set \in {"val", "test"} THEN Transform(enc, column)
    ELSE [enc |-> enc, raised |-> FALSE, codes |-> <<>>]

\* the whole function: [enc, raised, df]
ConvertAnnotationsToDf(enc, docs, image_dir, image_set) ==
    LET rows == JoinFilenames(XmlList(docs), image_dir)
        r == EncodeSplit(enc, image_set, ClassColumn(rows))
    IN  [enc |-> r.enc,
         raised |-> r.raised,
         df |-> IF r.raised THEN <<>>
                ELSE IF image_set \in {"train", "val", "test"}
                     THEN WithLabels(rows, r.codes)
                ELSE rows]

LabelPairs(df) == {<<df[i].class, df[i].labels>> : i \in 1..Len(df)}

\* one call of convert_annotations_to_df, from its arguments to its return or raise
Flatten(docs, image_dir, image_set) ==
    LET r == ConvertAnnotationsToDf(encoder, docs, image_dir, image_set)
    IN  /\ call' = [annotation_dir |-> docs, image_dir |-> image_dir,
                    image_set |-> image_set]
        /\ encoder' = r.enc
        /\ outcome' = IF r.raised THEN "raised" ELSE "returned"
        /\ xml_df' = r.df
        /\ trainPairs' = IF image_set = "train" THEN LabelPairs(r.df) ELSE trainPairs
        /\ UNCHANGED <<datasetVars, clampVars>>

-----------------------------------------------------------------------------
(* Numbers *)

\* fixed-point resolution: the number 1.0 is Unit, 0.5 is Unit \div 2
Unit == 2

\* an integer (a pixel coordinate of the table) as a fixed-point number
Fix(p) == p * Unit

Abs(n) == IF n < 0 THEN -n ELSE n

\* float32 has a 24-bit significand: integers below 2^24 are exact
Float32Limit == 2^24

\* the spacing of float32 values around the magnitude m
RECURSIVE Ulp(_)
Ulp(m) == IF m < Float32Limit THEN 1 ELSE 2 * Ulp(m \div 2)

\* round-to-nearest, ties to the even significand
RoundNearestEven(m) ==
    LET q == Ulp(m)
        r == m % q
        lo == m - r
    IN  IF 2 * r < q THEN lo
        ELSE IF 2 * r > q THEN lo + q
        ELSE IF (lo \div q) % 2 = 0 THEN lo ELSE lo + q

\* torch.as_tensor(int64 value, dtype=torch.float32)
ToFloat32(n) == IF n < 0 THEN -RoundNearestEven(-n) ELSE RoundNearestEven(n)

-----------------------------------------------------------------------------
(* clamp_bbox_coordinates *)

Min(a, b) == IF a < b THEN a ELSE b
Max(a, b) == IF a > b THEN a ELSE b

\* Variant of ClampCoord: the lower bound is forgotten
ClampCoordUpperOnly(v) == Min(v, Unit)

\* max(0.0, min(v, 1.0))
ClampCoord(v) == Max(0, Min(v, Unit))

\* one iteration of the loop: a 4-tuple, or else a 5-tuple with its class_id
ClampBox(bbox) ==
    IF Len(bbox) = 4
    THEN <<ClampCoord(bbox[1]), ClampCoord(bbox[2]),
           ClampCoord(bbox[3]), ClampCoord(bbox[4])>>
    ELSE <<ClampCoord(bbox[1]), ClampCoord(bbox[2]),
           ClampCoord(bbox[3]), ClampCoord(bbox[4]), bbox[5]>>

clamp_bbox_coordinates(bs) == [i \in 1..Len(bs) |-> ClampBox(bs[i])]

-----------------------------------------------------------------------------
(* PascalDataset *)

FilenameColumn(df) == [i \in 1..Len(df) |-> df[i].filename]

\* __init__ with an in-memory dataframe
PascalDataset(dataframe) ==
    [df |-> dataframe, image_ids |-> Unique(FilenameColumn(dataframe))]

\* __len__
DatasetLen(self) == Len(self.image_ids)

\* self.df[self.df["filename"] == image_id]
SelectRecords(df, image_id) ==
    LET Match(row) == row.filename = image_id IN SelectSeq(df, Match)

\* records[["xmin", "ymin", "xmax", "ymax"]].values
RawBoxes(records) ==
    [i \in 1..Len(records) |->
        <<records[i].xmin, records[i].ymin, records[i].xmax, records[i].ymax>>]

\* Variant of Area: only the boxes that pass the validity filter are measured
AreaOfValid(records) ==
    LET InFrame(b) == \A k \in 1..4 : 0 <= Fix(b[k]) /\ Fix(b[k]) <= Unit
        boxes == SelectSeq(RawBoxes(records), InFrame)
    IN  [i \in 1..Len(boxes) |->
            ToFloat32((boxes[i][4] - boxes[i][2]) * (boxes[i][3] - boxes[i][1]))]

\* area: (boxes[:, 3] - boxes[:, 1]) * (boxes[:, 2] - boxes[:, 0]) over the boxes
\* of all the records, as float32
Area(records) ==
    LET boxes == RawBoxes(records)
    IN  [i \in 1..Len(boxes) |->
            ToFloat32((boxes[i][4] - boxes[i][2]) * (boxes[i][3] - boxes[i][1]))]

\* records["labels"].values.tolist()
LabelColumn(records) == [i \in 1..Len(records) |-> records[i].labels]

\* torch.zeros((records.shape[0],))
IsCrowd(records) == [i \in 1..Len(records) |-> 0]

is_bbox_valid(bbox) ==
    /\ 0 <= bbox[1] /\ bbox[1] <= Unit
    /\ 0 <= bbox[2] /\ bbox[2] <= Unit
    /\ 0 <= bbox[3] /\ bbox[3] <= Unit
    /\ 0 <= bbox[4] /\ bbox[4] <= Unit

FilterValid(bs) == SelectSeq(bs, is_bbox_valid)

\* f_boxes: the table's boxes that pass is_bbox_valid, as numbers
PreFilter(boxes) ==
    FilterValid([i \in 1..Len(boxes) |->
        <<Fix(boxes[i][1]), Fix(boxes[i][2]), Fix(boxes[i][3]), Fix(boxes[i][4])>>])

\* the arguments __getitem__ gives self.tfms: the filtered boxes, and class_labels
\* as read from the table
TfmsArguments(boxes, class_labels) ==
    [bboxes |-> PreFilter(boxes), class_labels |-> class_labels]

\* What the caller-supplied transform may answer.  It is a random augmentation
\* pipeline, so each call picks one behaviour.
Transforms == {"keep", "drop_first", "shift", "shrink", "drop_box_only"}

DropFirst(s) == IF s = <<>> THEN s ELSE Tail(s)

\* a shift by half a unit, which can push a box out of the frame
ShiftBoxes(bs) ==
    [i \in 1..Len(bs) |-> <<bs[i][1] + 1, bs[i][2] + 1, bs[i][3] + 1, bs[i][4] + 1>>]

\* a rescale towards the origin, which keeps a box in the frame
ShrinkBoxes(bs) ==
    [i \in 1..Len(bs) |->
        <<bs[i][1] \div 2, bs[i][2] \div 2, bs[i][3] \div 2, bs[i][4] \div 2>>]

Tfms(t, args) ==
    CASE t = "keep" -> args
      [] t = "drop_first" ->
            [bboxes |-> DropFirst(args.bboxes),
             class_labels |-> DropFirst(args.class_labels)]
      [] t = "shift" ->
            [bboxes |-> ShiftBoxes(args.bboxes),
             class_labels |-> args.class_labels]
      [] t = "shrink" ->
            [bboxes |-> ShrinkBoxes(args.bboxes),
             class_labels |-> args.class_labels]
      [] t = "drop_box_only" ->
            [bboxes |-> DropFirst(args.bboxes), class_labels |-> args.class_labels]

\* Variant of Discard: the valid output boxes are counted against the input boxes
DiscardAgainstInput(args, tran) == Len(FilterValid(tran.bboxes)) # Len(args.bboxes)

\* the check after the transform: None when a transformed box is not valid
Discard(args, tran) == Len(FilterValid(tran.bboxes)) # Len(tran.bboxes)

NoSample == [kind |-> "none"]
Skip == [kind |-> "skip"]

\* __getitem__(index) with the transform answering as behaviour t:
\* [image_id, args, tran, result]
GetItemResult(self, index, t) ==
    LET image_id == self.image_ids[index + 1]
        records == SelectRecords(self.df, image_id)
        boxes == RawBoxes(records)
        args == TfmsArguments(boxes, LabelColumn(records))
        tran == Tfms(t, args)
    IN  [image_id |-> image_id,
         args |-> args,
         tran |-> tran,
         result |->
            IF Discard(args, tran) THEN Skip
            ELSE [kind |-> "sample",
                  image_id |-> index,
                  boxes |-> clamp_bbox_coordinates(FilterValid(tran.bboxes)),
                  labels |-> tran.class_labels,
                  area |-> Area(records),
                  iscrowd |-> IsCrowd(records)]]

-----------------------------------------------------------------------------
(* Inputs *)

BoxA == [xmin |-> 10, ymin |-> 10, xmax |-> 50, ymax |-> 50]
BoxB == [xmin |-> 60, ymin |-> 60, xmax |-> 90, ymax |-> 90]

FileA == [abs |-> FALSE, parts |-> <<"a.jpg">>]
FileB == [abs |-> TRUE, parts |-> <<"data", "b.jpg">>]
ImageDir == [abs |-> TRUE, parts |-> <<"voc", "JPEGImages">>]

\* filename and size of the two annotation documents
DocHeads == {[filename |-> FileA, size |-> <<100, 100>>],
             [filename |-> FileB, size |-> <<200, 150>>]}

Doc(head, objects) ==
    [filename |-> head.filename, size |-> head.size, objects |-> objects]

RowObjects == {[name |-> cat, bndbox |-> BoxA], [name |-> dog, bndbox |-> BoxB]}

\* the directories of the row-building specification
RowDirs ==
    SeqsUpTo({Doc(h, os) : h \in DocHeads, os \in SeqsUpTo(RowObjects, MaxObjects)},
             MaxDocs)

\* the directories of the encoder specification: one document, any class column
EncoderDirs ==
    {<<Doc([filename |-> FileA, size |-> <<100, 100>>], os)>> :
        os \in SeqsUpTo({[name |-> n, bndbox |-> BoxA] : n \in ClassNames}, MaxColumn)}

ImageSets == {"train", "val", "test", "trainval"}

PathA == PathJoin(ImageDir, FileA)
PathB == PathJoin(ImageDir, FileB)

\* raw boxes of a table: already normalised, in pixels, and with an area beyond 2^24
UnitBox == <<0, 0, 1, 1>>
PixelBox == <<10, 10, 50, 50>>
BigBox == <<0, 0, 4097, 4099>>

BoxLabels == {<<UnitBox, 1>>, <<PixelBox, 2>>, <<BigBox, 3>>}

TableRows ==
    {[filename |-> f, xmin |-> bl[1][1], ymin |-> bl[1][2], xmax |-> bl[1][3],
      ymax |-> bl[1][4], labels |-> bl[2]] : f \in {PathA, PathB}, bl \in BoxLabels}

Tables == SeqsUpTo(TableRows, MaxRows)

Coords == (-1)..(Unit + 1)

\* every 4-tuple, and every 5-tuple with a class id
ClampTuples ==
    LET four == {<<a, b, c, d>> : a \in Coords, b \in Coords, c \in Coords, d \in Coords}
    IN  four \cup {Append(t, id) : t \in four, id \in {1, 7}}

\* the boxes of the longer arguments
FewTuples == {<<-1, 0, 1, Unit + 1>>, <<1, 1, Unit, Unit>>, <<0, -1, Unit + 1, 1, 7>>}

ClampInputs ==
    {<<>>} \cup {<<t>> : t \in ClampTuples}
           \cup (SeqsUpTo(FewTuples, MaxBoxes) \ SeqsUpTo(FewTuples, 1))

-----------------------------------------------------------------------------
(* Initial states *)

NoCall == [annotation_dir |-> <<>>, image_dir |-> ImageDir, image_set |-> "none"]
NoGet == [index |-> -1]

FlattenIdle ==
    /\ encoder = Unfit
    /\ call = NoCall
    /\ outcome = "none"
    /\ xml_df = <<>>
    /\ trainPairs = {}

DatasetIdle ==
    /\ ds = PascalDataset(<<>>)
    /\ lenResult = -1
    /\ getCall = NoGet
    /\ sample = NoSample

ClampIdle ==
    /\ bboxes = <<>>
    /\ clamped = <<>>
    /\ reclamped = <<>>
    /\ pc = "idle"

\* a fresh process: nothing called yet
InitFlatten == FlattenIdle /\ DatasetIdle /\ ClampIdle

\* a dataset constructed over some table
InitDataset ==
    /\ FlattenIdle
    /\ ClampIdle
    /\ \E dataframe \in Tables : ds = PascalDataset(dataframe)
    /\ lenResult = -1
    /\ getCall = NoGet
    /\ sample = NoSample

\* some argument for clamp_bbox_coordinates
InitClamp ==
    /\ FlattenIdle
    /\ DatasetIdle
    /\ bboxes \in ClampInputs
    /\ clamped = <<>>
    /\ reclamped = <<>>
    /\ pc = "start"

-----------------------------------------------------------------------------
(* Actions *)

\* dataset.__len__()
LenCall ==
    /\ lenResult' = DatasetLen(ds)
    /\ UNCHANGED <<ds, getCall, sample, flattenVars, clampVars>>

\* dataset[index], for an index a sampler produces
GetItem(index, t) ==
    /\ index \in 0..(DatasetLen(ds) - 1)
    /\ LET r == GetItemResult(ds, index, t)
       IN  /\ getCall' = [index |-> index, image_id |-> r.image_id,
                          bboxes |-> r.args.bboxes,
                          class_labels |-> r.args.class_labels,
                          tran |-> r.tran]
           /\ sample' = r.result
    /\ UNCHANGED <<ds, lenResult, flattenVars, clampVars>>

\* clamped = clamp_bbox_coordinates(bboxes)
Clamp ==
    /\ pc = "start"
    /\ clamped' = clamp_bbox_coordinates(bboxes)
    /\ pc' = "clamped"
    /\ UNCHANGED <<bboxes, reclamped, flattenVars, datasetVars>>

\* reclamped = clamp_bbox_coordinates(clamped)
ClampAgain ==
    /\ pc = "clamped"
    /\ reclamped' = clamp_bbox_coordinates(clamped)
    /\ pc' = "reclamped"
    /\ UNCHANGED <<bboxes, clamped, flattenVars, datasetVars>>

\* the first flatten call of a process, over a directory of several documents
NextRows ==
    /\ outcome = "none"
    /\ \E docs \in RowDirs, image_set \in {"train", "trainval"} :
          Flatten(docs, ImageDir, image_set)

\* any sequence of flatten calls
NextEncoder ==
    \E docs \in EncoderDirs, image_set \in ImageSets : Flatten(docs, ImageDir, image_set)

NextDataset ==
    \/ LenCall
    \/ \E index \in 0..(MaxRows - 1), t \in Transforms : GetItem(index, t)

NextClamp == Clamp \/ ClampAgain

SpecRows == InitFlatten /\ [][NextRows]_vars
SpecEncoder == InitFlatten /\ [][NextEncoder]_vars
SpecDataset == InitDataset /\ [][NextDataset]_vars
SpecClamp == InitClamp /\ [][NextClamp]_vars

-----------------------------------------------------------------------------
(* Properties of convert_annotations_to_df: rows (SpecRows) *)

CallDocs == call.annotation_dir

\* rows contributed by the documents before document d
RECURSIVE RowsBefore(_, _)
RowsBefore(docs, d) ==
    IF d = 1 THEN 0 ELSE RowsBefore(docs, d - 1) + Len(docs[d - 1].objects)

\* C5: a document with k objects contributes exactly k rows (none when k = 0); the
\* rows of document d follow those of the documents before it, in object order, and
\* each carries the document's width and height and its filename joined with
\* image_dir; nothing is deduplicated.
C5_RowsPerDocument ==
    outcome = "returned" =>
        /\ Len(xml_df) = RowsBefore(CallDocs, Len(CallDocs) + 1)
        /\ \A d \in 1..Len(CallDocs) : \A k \in 1..Len(CallDocs[d].objects) :
              LET row == xml_df[RowsBefore(CallDocs, d) + k]
                  doc == CallDocs[d]
              IN  /\ row.width = doc.size[1]
                  /\ row.height = doc.size[2]
                  /\ row.class = doc.objects[k].name
                  /\ <<row.xmin, row.ymin, row.xmax, row.ymax>> =
                        <<doc.objects[k].bndbox.xmin, doc.objects[k].bndbox.ymin,
                          doc.objects[k].bndbox.xmax, doc.objects[k].bndbox.ymax>>
                  /\ IF doc.filename.abs THEN row.filename = doc.filename
                     ELSE row.filename =
                            [abs |-> call.image_dir.abs,
                             parts |-> call.image_dir.parts \o doc.filename.parts]

\* a directory whose first document has no object and whose second has the same
\* object twice
C5_Witness ==
    /\ outcome = "returned"
    /\ Len(CallDocs) = 2
    /\ CallDocs[1].objects = <<>>
    /\ Len(CallDocs[2].objects) = 2
    /\ CallDocs[2].objects[1] = CallDocs[2].objects[2]
    /\ Len(xml_df) = 2

-----------------------------------------------------------------------------
(* Properties of convert_annotations_to_df: labels (SpecEncoder) *)

Labelled == outcome = "returned" /\ call.image_set \in {"train", "val", "test"}

\* C3: every label_id written is >= 1, and a table returned for val or test gives
\* each class name the label_id it has in the table of the train call that fit the
\* encoder.
C3_LabelIdsAgree ==
    /\ Labelled => \A i \in 1..Len(xml_df) : xml_df[i].labels >= 1
    /\ (Labelled /\ call.image_set # "train") =>
          \A i \in 1..Len(xml_df) : \A p \in trainPairs :
              p[1] = xml_df[i].class => p[2] = xml_df[i].labels

\* a val or test table after a train table over two classes, whose first row has
\* the second label
C3_Witness ==
    /\ Labelled
    /\ call.image_set \in {"val", "test"}
    /\ Cardinality(trainPairs) = 2
    /\ Len(xml_df) >= 1
    /\ xml_df[1].labels = 2

\* the class column and the split of the call a step makes
NextColumn == ClassColumn(XmlList(call'.annotation_dir))

\* C4: a val or test call whose annotations hold a class name the encoder does not
\* map (no fit yet included) raises, returns no table and leaves the encoder as it was.
C4_UnseenClassFatal ==
    [][(/\ call'.image_set \in {"val", "test"}
        /\ \E i \in 1..Len(NextColumn) :
              ~encoder.fitted \/ NextColumn[i] \notin Range(encoder.classes_))
       => (outcome' = "raised" /\ xml_df' = <<>> /\ encoder' = encoder)]_vars

\* a val or test call that raised although a train call had fit two classes
C4_Witness ==
    /\ call.image_set \in {"val", "test"}
    /\ outcome = "raised"
    /\ encoder.fitted
    /\ Len(encoder.classes_) = 2

\* C6 as stated: on the train split the first distinct class name of the table gets
\* label_id 1, the second 2, and so on.
C6_FirstSeenOrdering ==
    (outcome = "returned" /\ call.image_set = "train") =>
        \A i \in 1..Len(xml_df) :
            xml_df[i].labels = IndexOf(xml_df[i].class, Unique(ClassColumn(xml_df)))

\* C6, amended: on the train split label ids follow the ascending order of the
\* distinct class names as strings, whatever the order they appear in: the ids are
\* 1..n for n distinct names, and a smaller name has a smaller id.
C6_SortedOrdering ==
    (outcome = "returned" /\ call.image_set = "train") =>
        /\ {xml_df[i].labels : i \in 1..Len(xml_df)} =
              1..Cardinality(Range(ClassColumn(xml_df)))
        /\ \A i, j \in 1..Len(xml_df) :
              StrLess(xml_df[i].class, xml_df[j].class)
                  <=> xml_df[i].labels < xml_df[j].labels

\* a train table whose first class name is not the smallest
C6_Witness ==
    /\ outcome = "returned"
    /\ call.image_set = "train"
    /\ Len(xml_df) = 2
    /\ xml_df[1].class = dog
    /\ xml_df[2].class = cat

\* C9 as stated: once the encoder is fit, no later call changes it.
C9_FitExactlyOnce == [][encoder.fitted => encoder' = encoder]_vars

\* C9, amended: a call with a split other than train never changes the encoder;
\* every train call fits it again, on the class names of that call.
C9_OnlyTrainFits ==
    [][IF call'.image_set = "train"
       THEN encoder'.fitted /\ Range(encoder'.classes_) = Range(NextColumn)
       ELSE encoder' = encoder]_vars

\* a call with another split, made after a fit over two classes
C9_Witness ==
    /\ call.image_set \in {"val", "test", "trainval"}
    /\ encoder.fitted
    /\ Len(encoder.classes_) = 2
    /\ Range(ClassColumn(XmlList(CallDocs))) # Range(encoder.classes_)

-----------------------------------------------------------------------------
(* Properties of PascalDataset (SpecDataset) *)

GetDone == getCall # NoGet

InFrame(b) == \A k \in 1..4 : b[k] \in 0..Unit

NumInFrame(bs) == Cardinality({i \in 1..Len(bs) : InFrame(bs[i])})

\* C1 as stated, in its skip policy: fewer valid output boxes than boxes given to
\* the transform means skip, and a sample is returned only when the two counts are
\* equal, its boxes having that length.  (The length of labels is left to C8,
\* whose subject decides it.)
C1_SkipAgainstInput ==
    GetDone =>
        /\ NumInFrame(getCall.tran.bboxes) < Len(getCall.bboxes) => sample = Skip
        /\ sample.kind = "sample" =>
              /\ NumInFrame(getCall.tran.bboxes) = Len(getCall.bboxes)
              /\ Len(sample.boxes) = Len(getCall.bboxes)

\* C1, amended: get returns skip exactly when some box the transform returned has
\* a coordinate outside [0,1], however many boxes the transform was given;
\* otherwise it returns a sample whose boxes are as many as the transform returned
\* and whose labels are the class labels the transform returned.
C1_SkipIffInvalidOutput ==
    GetDone =>
        /\ sample = Skip <=>
              \E i \in 1..Len(getCall.tran.bboxes) : ~InFrame(getCall.tran.bboxes[i])
        /\ sample # Skip =>
              /\ sample.kind = "sample"
              /\ Len(sample.boxes) = Len(getCall.tran.bboxes)
              /\ sample.labels = getCall.tran.class_labels

\* the transform was given two boxes and returned one, which is valid
C1_Witness ==
    /\ GetDone
    /\ Len(getCall.bboxes) = 2
    /\ Len(getCall.tran.bboxes) = 1
    /\ sample.kind = "sample"
    /\ Len(sample.boxes) = 1

\* the rows of the image the last get resolved
GetRows == SelectRecords(ds.df, getCall.image_id)

FirstRow(path) == CHOOSE i \in 1..Len(ds.df) :
    /\ ds.df[i].filename = path
    /\ \A j \in 1..(i - 1) : ds.df[j].filename # path

Paths == {ds.df[i].filename : i \in 1..Len(ds.df)}

\* C7: __len__ is the number of distinct filename values of the table, and
\* get(index) reads the path that has exactly index distinct paths first occurring
\* before it in the table.
C7_DistinctPaths ==
    /\ lenResult # -1 => lenResult = Cardinality(Paths)
    /\ GetDone =>
          /\ getCall.image_id \in Paths
          /\ Cardinality({q \in Paths : FirstRow(q) < FirstRow(getCall.image_id)})
                = getCall.index

\* three rows over two paths, the first path again in the last row; length and
\* get(1) were called
C7_Witness ==
    /\ Len(ds.df) = 3
    /\ ds.df[1].filename = ds.df[3].filename
    /\ ds.df[2].filename # ds.df[1].filename
    /\ lenResult = 2
    /\ GetDone
    /\ getCall.index = 1
    /\ getCall.image_id = ds.df[2].filename

RowInFrame(row) == InFrame(<<Fix(row.xmin), Fix(row.ymin), Fix(row.xmax), Fix(row.ymax)>>)

\* C8: the transform receives as many class labels as boxes, and they are the
\* boxes and labels of the rows whose raw box lies in [0,1], in row order.
C8_LabelsInLockstep ==
    GetDone =>
        LET kept == SelectSeq(GetRows, RowInFrame)
        IN  /\ Len(getCall.bboxes) = Len(getCall.class_labels)
            /\ getCall.class_labels = LabelColumn(kept)

RowProduct(row) == (row.xmax - row.xmin) * (row.ymax - row.ymin)

\* C10 as stated: area has one entry per row of the image, equal to
\* (xmax - xmin) * (ymax - ymin) of the row, and iscrowd is as long and all zeros.
C10_AreaExactProduct ==
    sample.kind = "sample" =>
        /\ Len(sample.area) = Len(GetRows)
        /\ \A i \in 1..Len(GetRows) : sample.area[i] = RowProduct(GetRows[i])
        /\ sample.iscrowd = [i \in 1..Len(GetRows) |-> 0]

\* C10, amended: area has one entry per row of the image, in row order, equal to
\* (xmax - xmin) * (ymax - ymin) of the row rounded to the nearest float32 (the
\* product itself up to 2^24), and iscrowd is as long and all zeros, whatever the
\* pre-filter dropped and the transform did.
C10_AreaFloat32OfRows ==
    sample.kind = "sample" =>
        /\ Len(sample.area) = Len(GetRows)
        /\ \A i \in 1..Len(GetRows) :
              LET p == RowProduct(GetRows[i])
                  a == sample.area[i]
              IN  /\ Abs(p) <= Float32Limit => a = p
                  /\ 2 * Abs(a - p) <= Ulp(Abs(p))
                  /\ a % Ulp(Abs(a)) = 0
        /\ sample.iscrowd = [i \in 1..Len(GetRows) |-> 0]

\* a sample of an image with a row the pre-filter dropped, after a transform that
\* moved the box it was given
C10_Witness ==
    /\ sample.kind = "sample"
    /\ Len(GetRows) = 2
    /\ Len(getCall.bboxes) = 1
    /\ getCall.tran.bboxes # getCall.bboxes
    /\ Len(sample.boxes) = 1
    /\ \E i \in 1..2 : sample.area[i] = 1600

-----------------------------------------------------------------------------
(* Properties of clamp_bbox_coordinates (SpecClamp) *)

\* C2: the result has the length of the argument and each box its arity; each of the
\* first four coordinates is 0 below 0, 1 above 1 and unchanged in between, so
\* lies in [0,1]; a fifth element is unchanged; clamping the result again changes
\* nothing.
C2_ClampContract ==
    /\ pc \in {"clamped", "reclamped"} =>
          /\ Len(clamped) = Len(bboxes)
          /\ \A i \in 1..Len(bboxes) :
                /\ Len(clamped[i]) = Len(bboxes[i])
                /\ \A k \in 1..4 :
                      /\ clamped[i][k] \in 0..Unit
                      /\ bboxes[i][k] < 0 => clamped[i][k] = 0
                      /\ bboxes[i][k] > Unit => clamped[i][k] = Unit
                      /\ bboxes[i][k] \in 0..Unit => clamped[i][k] = bboxes[i][k]
                /\ Len(bboxes[i]) = 5 => clamped[i][5] = bboxes[i][5]
    /\ pc = "reclamped" => reclamped = clamped

\* two boxes, one with a class id, with coordinates below 0 and above 1, clamped twice
C2_Witness ==
    /\ pc = "reclamped"
    /\ Len(bboxes) = 2
    /\ Len(bboxes[1]) = 4
    /\ Len(bboxes[2]) = 5
    /\ bboxes[1][1] < 0
    /\ bboxes[2][3] > Unit
    /\ clamped[2][5] = 7

=============================================================================
